---- MODULE Spec2Model ----
(***************************************************************************)
(* Model of crates/engine/tree/src/engine.rs: the EngineHandler            *)
(* multiplexer (handler, incoming request stream, block downloader) and    *)
(* the channel-backed EngineApiRequestHandler.                             *)
(*                                                                         *)
(* EngineHandler<T, S, D> is generic in its handler T.  The model is       *)
(* instantiated either with an arbitrary EngineRequestHandler ("generic":  *)
(* every poll may report anything) or with EngineApiRequestHandler         *)
(* ("api": two channels to a concurrently running tree task).              *)
(*                                                                         *)
(* One poll() invocation is a sequence of steps (pc), so that the other    *)
(* tasks (request producer, downloader, tree) interleave with it.          *)
(***************************************************************************)
EXTENDS Naturals, Sequences, FiniteSets

VARIABLES
    kind,               \* which T the EngineHandler was built with
    pc,                 \* position inside EngineHandler::poll, "idle" outside
    hIn,                \* inputs passed to handler.on_event, in call order
    from_tree,          \* EngineApiRequestHandler.from_tree: buffered events
    from_tree_closed,   \* every sender of from_tree has been dropped
    to_tree,            \* EngineApiRequestHandler.to_tree: inputs sent, in send order
    to_tree_alive,      \* the receiver of to_tree still exists
    send_failed,        \* some to_tree.send returned Err (and was discarded)
    incoming_requests,  \* items ready in the incoming request stream
    incoming_closed,    \* the incoming request stream has ended
    dl_ready,           \* outcomes the downloader has ready
    dl_actions,         \* actions the downloader received via on_action
    tr,                 \* what the current (or last) poll invocation did
    ret,                \* what the last poll invocation returned
    at_start,           \* snapshot taken when the invocation started
    emitted,            \* HandlerEvents the handler's poll produced
    returned,           \* HandlerEvents poll returned as Ready
    h_out,              \* every Ready result the handler's poll produced
    tree_sent,          \* every event the tree task sent on from_tree
    arrived,            \* every request that arrived on the incoming stream
    coop,               \* cooperative budget left to the task that runs poll
    stream              \* "tokio": the incoming stream is a tokio resource; "plain"

vars == <<kind, pc, hIn, from_tree, from_tree_closed, to_tree, to_tree_alive,
          send_failed, incoming_requests, incoming_closed, dl_ready,
          dl_actions, tr, ret, at_start, emitted, returned, h_out, tree_sent,
          arrived, coop, stream>>

(* ---------------------------- bounds ---------------------------------- *)

\* items the environment supplies in a run: Ready results of the handler
\* (events the tree sends), requests arriving on the incoming stream, Blocks
\* outcomes of the downloader and orchestrator events, taken together
MaxEnv == 3
\* poll invocations started after poll has returned FatalError are counted up
\* to this many FatalError results
MaxFatal == 2
\* entries the logs hIn, arrived and tr keep while a poll spins (SpecBusy)
MaxLog == 3

\* tokio's cooperative budget: operations on tokio resources a task may
\* complete in one task poll (tokio::task::coop, Budget::initial)
CoopBudget == 128
\* budget the task has left when it first calls EngineHandler::poll, other
\* work of the task having spent the rest: every budget a run within MaxEnv
\* and MaxFatal can exhaust, and the full budget
StartBudgets == 0..(MaxEnv + MaxFatal) \cup {CoopBudget}
\* budgets with which a poll invocation is followed: those of StartBudgets
\* and those a task is left with after spending at most MaxEnv + MaxFatal
\* units of a full budget (an ended tokio stream costs a unit at every poll)
PolledBudgets == StartBudgets \cup (CoopBudget - (MaxEnv + MaxFatal))..CoopBudget

(* ---------------------------- payloads -------------------------------- *)

Hashes == {"h1", "h2"}
BeaconEvents == {"e1", "e2"}
BackfillTargets == {"t1"}
EngineRequests == {"r1", "r2"}
OrchestratorEvents == {"s1"}
BlockBatches == {<<"b1">>}

(* ------------------------- the enum types ----------------------------- *)

\* DownloadRequest
BlockSet(hs) == [tag |-> "BlockSet", hashes |-> hs]
BlockRange(h, n) == [tag |-> "BlockRange", start |-> h, count |-> n]
\* HashSet::from(array): the set of the array's elements
HashSet_from(array) == {array[i] : i \in 1..Len(array)}
\* (variant) the request is built as a range of one block
single_block_AsRange(hash) == BlockRange(hash, 1)
single_block(hash) == BlockSet(HashSet_from(<<hash>>))

DownloadRequests == {single_block("h1"), BlockRange("h2", 2)}

\* Poll::Pending
Pending == [tag |-> "Pending"]
\* Poll::Ready(HandlerEvent) as returned by EngineHandler::poll
Ready(hev) == [tag |-> "Ready", hev |-> hev]

\* HandlerEvent
Event(ev) == [tag |-> "Event", ev |-> ev]
BackfillAction(target) == [tag |-> "BackfillAction", target |-> target]
FatalError == [tag |-> "FatalError"]

HandlerEvents ==
    {Event(e) : e \in BeaconEvents}
        \cup {BackfillAction(t) : t \in BackfillTargets} \cup {FatalError}

\* RequestHandlerEvent
HandlerEvent(hev) == [tag |-> "HandlerEvent", hev |-> hev]
Download(req) == [tag |-> "Download", req |-> req]

RequestHandlerEvents ==
    {HandlerEvent(h) : h \in HandlerEvents}
        \cup {Download(r) : r \in DownloadRequests}

\* EngineApiEvent
EngineApiEvent_BeaconConsensus(ev) == [tag |-> "ApiBeaconConsensus", ev |-> ev]
EngineApiEvent_BackfillAction(action) ==
    [tag |-> "ApiBackfillAction", action |-> action]
EngineApiEvent_Download(action) == [tag |-> "ApiDownload", action |-> action]

EngineApiEvents ==
    {EngineApiEvent_BeaconConsensus(e) : e \in BeaconEvents}
        \cup {EngineApiEvent_BackfillAction(t) : t \in BackfillTargets}
        \cup {EngineApiEvent_Download(r) : r \in DownloadRequests}

\* FromEngine
FromEngine_Event(ev) == [tag |-> "FromOrchestrator", ev |-> ev]
FromEngine_Request(req) == [tag |-> "Request", req |-> req]
FromEngine_DownloadedBlocks(blocks) ==
    [tag |-> "DownloadedBlocks", blocks |-> blocks]

\* (variant) the orchestrator event is wrapped as a request
FromEngine_from_AsRequest(event) == FromEngine_Request(event)

\* impl From<FromOrchestrator> for FromEngine
FromEngine_from(event) == FromEngine_Event(event)

\* DownloadAction
Clear == [tag |-> "Clear"]
DownloadAction_Download(req) == [tag |-> "Start", req |-> req]

\* DownloadOutcome
Blocks(blocks) == [tag |-> "Blocks", blocks |-> blocks]

\* Poll<Option<Req>> of the incoming stream, Poll<DownloadOutcome>
ReadySome(item) == [tag |-> "ReadySome", item |-> item]
ReadyNone == [tag |-> "ReadyNone"]
ReadyOutcome(outcome) == [tag |-> "ReadyOutcome", outcome |-> outcome]

(* --------------------------- helpers ----------------------------------- *)

Last(s) == s[Len(s)]

Count(s, tag) == Cardinality({i \in 1..Len(s) : s[i].tag = tag})

NumFatal == Count(returned, "FatalError")
\* Ready results the handler has produced so far (for the channel-backed
\* handler: events the tree has sent; a closed channel is no event)
NumOut ==
    Len(from_tree) + Len(emitted) + Count(dl_actions, "Start")
        - (IF kind = "api" THEN NumFatal ELSE 0)
\* requests that have arrived so far
NumReq == Len(incoming_requests) + Count(hIn, "Request")
\* Blocks outcomes present or delivered
NumBlk == Len(dl_ready) + Count(hIn, "DownloadedBlocks")
\* orchestrator events delivered so far
NumSig == Count(hIn, "FromOrchestrator")
\* everything the environment has supplied so far
NumEnv == NumOut + NumReq + NumBlk + NumSig

(* what a poll invocation did, in order *)
HPoll(res) == [k |-> "hpoll", res |-> res]
Act(action) == [k |-> "action", action |-> action]
RPoll(item) == [k |-> "rpoll", item |-> item]
In(input) == [k |-> "in", input |-> input]
DPoll(out) == [k |-> "dpoll", out |-> out]

NoReturn == [tag |-> "None"]
Running == [tag |-> "Running"]

(* ----------------- EngineApiRequestHandler (channel-backed) ------------ *)

\* the match of EngineApiRequestHandler::poll
EngineApiEvent_translate(ev) ==
    CASE ev.tag = "ApiBeaconConsensus" -> HandlerEvent(Event(ev.ev))
      [] ev.tag = "ApiBackfillAction" -> HandlerEvent(BackfillAction(ev.action))
      [] ev.tag = "ApiDownload" -> Download(ev.action)

\* (variant) a closed channel is reported before the buffered events
EngineApiRequestHandler_poll_ClosedFirst(chan, closed, budget) ==
    IF budget = 0
    THEN [res |-> Pending, chan |-> chan, budget |-> budget]
    ELSE IF closed
         THEN [res |-> HandlerEvent(FatalError), chan |-> chan, budget |-> budget - 1]
         ELSE IF chan # <<>>
              THEN [res |-> EngineApiEvent_translate(Head(chan)), chan |-> Tail(chan),
                    budget |-> budget - 1]
              ELSE [res |-> Pending, chan |-> chan, budget |-> budget]

\* (variant) a closed channel is reported as Pending
EngineApiRequestHandler_poll_PendingWhenClosed(chan, closed, budget) ==
    IF budget > 0 /\ chan # <<>>
    THEN [res |-> EngineApiEvent_translate(Head(chan)), chan |-> Tail(chan),
          budget |-> budget - 1]
    ELSE [res |-> Pending, chan |-> chan, budget |-> budget]

\* EngineApiRequestHandler::poll: result, the channel and the task's budget
\* afterwards.  from_tree.poll_recv(cx) is a budgeted tokio operation: with
\* the budget spent it wakes the task and reports Pending whatever the
\* channel holds; a Ready result (an event, or None for a closed and empty
\* channel) costs one unit, a Pending result costs nothing.
EngineApiRequestHandler_poll(chan, closed, budget) ==
    IF budget = 0
    THEN [res |-> Pending, chan |-> chan, budget |-> budget]
    ELSE IF chan # <<>>
         THEN [res |-> EngineApiEvent_translate(Head(chan)), chan |-> Tail(chan),
               budget |-> budget - 1]
         ELSE IF closed
              THEN [res |-> HandlerEvent(FatalError), chan |-> chan,
                    budget |-> budget - 1]
              ELSE [res |-> Pending, chan |-> chan, budget |-> budget]

\* (variant) the input is put in front of the inputs already sent
EngineApiRequestHandler_on_event_InFront(chan, alive, event) ==
    IF alive
    THEN [chan |-> <<event>> \o chan, err |-> FALSE]
    ELSE [chan |-> chan, err |-> TRUE]

\* EngineApiRequestHandler::on_event: `let _ = self.to_tree.send(event)`
EngineApiRequestHandler_on_event(chan, alive, event) ==
    IF alive
    THEN [chan |-> Append(chan, event), err |-> FALSE]
    ELSE [chan |-> chan, err |-> TRUE]

(* ----------------- the handler T of EngineHandler ---------------------- *)

\* self.handler.poll(cx): the possible results, with the handler afterwards
HandlerPoll ==
    IF kind = "api"
    THEN {EngineApiRequestHandler_poll(from_tree, from_tree_closed, coop)}
    ELSE {[res |-> Pending, chan |-> from_tree, budget |-> coop]}
            \cup IF NumEnv < MaxEnv
                 THEN {[res |-> r, chan |-> from_tree, budget |-> coop] :
                            r \in RequestHandlerEvents}
                 ELSE {}

\* self.handler.on_event(event)
HandlerOnEvent(event) ==
    /\ hIn' = Append(hIn, event)
    /\ IF kind = "api"
       THEN LET r == EngineApiRequestHandler_on_event(to_tree, to_tree_alive, event)
            IN /\ to_tree' = r.chan
               /\ send_failed' = (send_failed \/ r.err)
       ELSE UNCHANGED <<to_tree, send_failed>>

(* ----------------- incoming request stream, downloader ----------------- *)

\* self.incoming_requests.poll_next_unpin(cx): result and the task's budget
\* afterwards.  S is generic: a stream that is a tokio resource
\* (tokio-stream's UnboundedReceiverStream) is budgeted like from_tree, any
\* other stream (futures mpsc) is not.
poll_next(queue, closed, budgeted, budget) ==
    IF budgeted /\ budget = 0
    THEN [res |-> Pending, budget |-> budget]
    ELSE LET left == IF budgeted THEN budget - 1 ELSE budget
         IN IF queue # <<>> THEN [res |-> ReadySome(Head(queue)), budget |-> left]
            ELSE IF closed THEN [res |-> ReadyNone, budget |-> left]
            ELSE [res |-> Pending, budget |-> budget]

\* self.downloader.poll(cx)
Downloader_poll(ready) ==
    IF ready # <<>> THEN ReadyOutcome(Blocks(Head(ready))) ELSE Pending

\* self.downloader.on_action(a) for each a of actions, in order
DownloaderOnActions(actions) ==
    /\ dl_actions' = dl_actions \o actions
    /\ dl_ready' \in IF \E i \in 1..Len(actions) : actions[i] = Clear
                     THEN {dl_ready, <<>>}
                     ELSE {dl_ready}

(* ----------------- EngineHandler::poll --------------------------------- *)

\* (variant) a Download of the handler is not passed to the downloader
DrainActions_NoStart(res) ==
    CASE res.tag = "HandlerEvent" /\ res.hev.tag = "BackfillAction" -> <<Clear>>
      [] OTHER -> <<>>

\* (variant) FatalError clears the downloader as BackfillAction does
DrainActions_ClearOnFatal(res) ==
    CASE res.tag = "Download" -> <<DownloadAction_Download(res.req)>>
      [] res.tag = "HandlerEvent" /\ res.hev.tag \in {"BackfillAction", "FatalError"}
            -> <<Clear>>
      [] OTHER -> <<>>

\* (variant) BackfillAction is bubbled without Clear
DrainActions_NoClear(res) ==
    CASE res.tag = "Download" -> <<DownloadAction_Download(res.req)>>
      [] OTHER -> <<>>

\* the actions poll sends to the downloader for one Ready handler result
DrainActions(res) ==
    CASE res.tag = "Download" -> <<DownloadAction_Download(res.req)>>
      [] res.tag = "HandlerEvent" /\ res.hev.tag = "BackfillAction" -> <<Clear>>
      [] OTHER -> <<>>

\* the value poll returns for a HandlerEvent of the handler
Bubble(hev) ==
    CASE hev.tag = "BackfillAction" -> Ready(BackfillAction(hev.target))
      [] hev.tag = "Event" -> Ready(Event(hev.ev))
      [] hev.tag = "FatalError" -> Ready(FatalError)

\* the steps of tr for one Ready handler result
DrainTrace(res) ==
    <<HPoll(res)>> \o [i \in 1..Len(DrainActions(res)) |-> Act(DrainActions(res)[i])]

PollStart ==
    /\ pc = "idle"
    /\ NumFatal < MaxFatal
    /\ coop \in PolledBudgets
    /\ pc' = "drain"
    /\ tr' = <<>>
    /\ ret' = Running
    /\ at_start' = [closed |-> from_tree_closed /\ from_tree = <<>>,
                    requests |-> Len(incoming_requests),
                    send_failed |-> send_failed]
    /\ UNCHANGED <<kind, stream, coop, h_out, tree_sent, arrived, hIn, from_tree, from_tree_closed, to_tree, to_tree_alive,
                   send_failed, incoming_requests, incoming_closed,
                   dl_ready, dl_actions, emitted, returned>>

\* (variant) after the handler is Pending the downloader is polled first
DrainPending_ToDownloader ==
    /\ pc = "drain"
    /\ \E o \in HandlerPoll :
        /\ o.res = Pending
        /\ from_tree' = o.chan
        /\ coop' = o.budget
        /\ tr' = Append(tr, HPoll(o.res))
    /\ pc' = "downloader"
    /\ UNCHANGED <<kind, stream, h_out, tree_sent, arrived, hIn, from_tree_closed, to_tree,
                   to_tree_alive, send_failed, incoming_requests, incoming_closed,
                   dl_ready, dl_actions, ret, at_start, emitted, returned>>

\* `while let Poll::Ready(ev) = self.handler.poll(cx)` ends: the handler is Pending
DrainPending ==
    /\ pc = "drain"
    /\ \E o \in HandlerPoll :
        /\ o.res = Pending
        /\ from_tree' = o.chan
        /\ coop' = o.budget
        /\ tr' = Append(tr, HPoll(o.res))
    /\ pc' = "incoming"
    /\ UNCHANGED <<kind, stream, h_out, tree_sent, arrived, hIn, from_tree_closed, to_tree, to_tree_alive, send_failed,
                   incoming_requests, incoming_closed, dl_ready,
                   dl_actions, ret, at_start, emitted, returned>>

\* RequestHandlerEvent::Download(req): to the downloader, keep draining
DrainDownload ==
    /\ pc = "drain"
    /\ \E o \in HandlerPoll :
        /\ o.res.tag = "Download"
        /\ from_tree' = o.chan
        /\ coop' = o.budget
        /\ h_out' = Append(h_out, o.res)
        /\ DownloaderOnActions(DrainActions(o.res))
        /\ tr' = tr \o DrainTrace(o.res)
    /\ pc' = "drain"
    /\ UNCHANGED <<kind, stream, tree_sent, arrived, hIn, from_tree_closed, to_tree, to_tree_alive, send_failed,
                   incoming_requests, incoming_closed, ret, at_start,
                   emitted, returned>>

\* (variant) an Event of the handler does not end the poll and is not returned
DrainHandlerEvent_DropsEvent ==
    /\ pc = "drain"
    /\ \E o \in HandlerPoll :
        /\ o.res.tag = "HandlerEvent"
        /\ from_tree' = o.chan
        /\ coop' = o.budget
        /\ h_out' = Append(h_out, o.res)
        /\ DownloaderOnActions(DrainActions(o.res))
        /\ tr' = tr \o DrainTrace(o.res)
        /\ emitted' = Append(emitted, o.res.hev)
        /\ IF o.res.hev.tag = "Event"
           THEN pc' = "drain" /\ UNCHANGED <<ret, returned>>
           ELSE /\ pc' = "idle"
                /\ ret' = Bubble(o.res.hev)
                /\ returned' = Append(returned, Bubble(o.res.hev).hev)
    /\ UNCHANGED <<kind, stream, tree_sent, arrived, hIn, from_tree_closed, to_tree, to_tree_alive, send_failed,
                   incoming_requests, incoming_closed, at_start>>

\* RequestHandlerEvent::HandlerEvent(ev): poll returns
DrainHandlerEvent ==
    /\ pc = "drain"
    /\ \E o \in HandlerPoll :
        /\ o.res.tag = "HandlerEvent"
        /\ from_tree' = o.chan
        /\ coop' = o.budget
        /\ h_out' = Append(h_out, o.res)
        /\ DownloaderOnActions(DrainActions(o.res))
        /\ tr' = tr \o DrainTrace(o.res)
        /\ emitted' = Append(emitted, o.res.hev)
        /\ ret' = Bubble(o.res.hev)
        /\ returned' = Append(returned, Bubble(o.res.hev).hev)
    /\ pc' = "idle"
    /\ UNCHANGED <<kind, stream, tree_sent, arrived, hIn, from_tree_closed, to_tree, to_tree_alive, send_failed,
                   incoming_requests, incoming_closed, at_start>>

\* (variant) the request is popped and not passed to the handler
AcceptRequest_Drops ==
    /\ pc = "incoming"
    /\ LET q == poll_next(incoming_requests, incoming_closed, stream = "tokio", coop)
           p == q.res
       IN /\ coop' = q.budget
          /\ p.tag = "ReadySome"
          /\ incoming_requests' = Tail(incoming_requests)
          /\ tr' = Append(tr, RPoll(p))
    /\ pc' = "drain"
    /\ UNCHANGED <<kind, stream, h_out, tree_sent, arrived, hIn, to_tree, send_failed,
                   from_tree, from_tree_closed, to_tree_alive,
                   incoming_closed, dl_ready, dl_actions, ret, at_start, emitted,
                   returned>>

\* (variant) after a request the next request is popped without draining
AcceptRequest_NoDrain ==
    /\ pc = "incoming"
    /\ LET q == poll_next(incoming_requests, incoming_closed, stream = "tokio", coop)
           p == q.res
       IN /\ coop' = q.budget
          /\ p.tag = "ReadySome"
          /\ incoming_requests' = Tail(incoming_requests)
          /\ HandlerOnEvent(FromEngine_Request(p.item))
          /\ tr' = tr \o <<RPoll(p), In(FromEngine_Request(p.item))>>
    /\ pc' = "incoming"
    /\ UNCHANGED <<kind, stream, h_out, tree_sent, arrived, from_tree, from_tree_closed, to_tree_alive,
                   incoming_closed, dl_ready, dl_actions, ret, at_start, emitted,
                   returned>>

\* (variant) no `continue` after a request: the downloader is polled next
AcceptRequest_NoContinue ==
    /\ pc = "incoming"
    /\ LET q == poll_next(incoming_requests, incoming_closed, stream = "tokio", coop)
           p == q.res
       IN /\ coop' = q.budget
          /\ p.tag = "ReadySome"
          /\ incoming_requests' = Tail(incoming_requests)
          /\ HandlerOnEvent(FromEngine_Request(p.item))
          /\ tr' = tr \o <<RPoll(p), In(FromEngine_Request(p.item))>>
    /\ pc' = "downloader"
    /\ UNCHANGED <<kind, stream, h_out, tree_sent, arrived, from_tree, from_tree_closed, to_tree_alive,
                   incoming_closed, dl_ready, dl_actions, ret, at_start, emitted,
                   returned>>

\* `if let Poll::Ready(Some(req)) = ...poll_next_unpin(cx)`: taken
AcceptRequest ==
    /\ pc = "incoming"
    /\ LET q == poll_next(incoming_requests, incoming_closed, stream = "tokio", coop)
           p == q.res
       IN /\ coop' = q.budget
          /\ p.tag = "ReadySome"
          /\ incoming_requests' = Tail(incoming_requests)
          /\ HandlerOnEvent(FromEngine_Request(p.item))
          /\ tr' = tr \o <<RPoll(p), In(FromEngine_Request(p.item))>>
    /\ pc' = "drain"
    /\ UNCHANGED <<kind, stream, h_out, tree_sent, arrived, from_tree, from_tree_closed, to_tree_alive, incoming_closed, dl_ready, dl_actions, ret, at_start, emitted,
                   returned>>

\* (variant) the end of the incoming stream is returned as FatalError
NoRequest_FatalAtEnd ==
    /\ pc = "incoming"
    /\ LET q == poll_next(incoming_requests, incoming_closed, stream = "tokio", coop)
           p == q.res
       IN /\ coop' = q.budget
          /\ p.tag # "ReadySome"
          /\ tr' = Append(tr, RPoll(p))
          /\ IF p = ReadyNone
             THEN /\ pc' = "idle"
                  /\ ret' = Ready(FatalError)
                  /\ returned' = Append(returned, FatalError)
                  /\ emitted' = Append(emitted, FatalError)
             ELSE /\ pc' = "downloader"
                  /\ UNCHANGED <<ret, returned, emitted>>
    /\ UNCHANGED <<kind, stream, h_out, tree_sent, arrived, hIn, from_tree, from_tree_closed, to_tree, to_tree_alive,
                   send_failed, incoming_requests, incoming_closed,
                   dl_ready, dl_actions, at_start>>

\* (variant) with no request ready poll returns Pending at once
NoRequest_ReturnsPending ==
    /\ pc = "incoming"
    /\ LET q == poll_next(incoming_requests, incoming_closed, stream = "tokio", coop)
           p == q.res
       IN /\ coop' = q.budget
          /\ p.tag # "ReadySome"
          /\ tr' = Append(tr, RPoll(p))
    /\ ret' = Pending
    /\ pc' = "idle"
    /\ UNCHANGED <<kind, stream, h_out, tree_sent, arrived, hIn, from_tree, from_tree_closed, to_tree, to_tree_alive,
                   send_failed, incoming_requests, incoming_closed,
                   dl_ready, dl_actions, at_start, emitted, returned>>

\* the same `if let`, not taken: Pending or Ready(None)
NoRequest ==
    /\ pc = "incoming"
    /\ LET q == poll_next(incoming_requests, incoming_closed, stream = "tokio", coop)
           p == q.res
       IN /\ coop' = q.budget
          /\ p.tag # "ReadySome"
          /\ tr' = Append(tr, RPoll(p))
    /\ pc' = "downloader"
    /\ UNCHANGED <<kind, stream, h_out, tree_sent, arrived, hIn, from_tree, from_tree_closed, to_tree, to_tree_alive,
                   send_failed, incoming_requests, incoming_closed,
                   dl_ready, dl_actions, ret, at_start, emitted, returned>>

\* (variant) no `continue` after the blocks: poll returns Pending
DeliverBlocks_NoContinue ==
    /\ pc = "downloader"
    /\ LET p == Downloader_poll(dl_ready)
       IN /\ p.tag = "ReadyOutcome"
          /\ dl_ready' = Tail(dl_ready)
          /\ HandlerOnEvent(FromEngine_DownloadedBlocks(p.outcome.blocks))
          /\ tr' = tr \o <<DPoll(p), In(FromEngine_DownloadedBlocks(p.outcome.blocks))>>
    /\ ret' = Pending
    /\ pc' = "idle"
    /\ UNCHANGED <<kind, stream, coop, h_out, tree_sent, arrived, from_tree, from_tree_closed,
                   to_tree_alive, incoming_requests, incoming_closed, dl_actions,
                   at_start, emitted, returned>>

\* `if let Poll::Ready(DownloadOutcome::Blocks(blocks)) = self.downloader.poll(cx)`
DeliverBlocks ==
    /\ pc = "downloader"
    /\ LET p == Downloader_poll(dl_ready)
       IN /\ p.tag = "ReadyOutcome"
          /\ dl_ready' = Tail(dl_ready)
          /\ HandlerOnEvent(FromEngine_DownloadedBlocks(p.outcome.blocks))
          /\ tr' = tr \o <<DPoll(p), In(FromEngine_DownloadedBlocks(p.outcome.blocks))>>
    /\ pc' = "drain"
    /\ UNCHANGED <<kind, stream, coop, h_out, tree_sent, arrived, from_tree, from_tree_closed, to_tree_alive, incoming_requests, incoming_closed, dl_actions, ret, at_start,
                   emitted, returned>>

\* `return Poll::Pending`
ReturnPending ==
    /\ pc = "downloader"
    /\ LET p == Downloader_poll(dl_ready)
       IN /\ p.tag # "ReadyOutcome"
          /\ tr' = Append(tr, DPoll(p))
    /\ ret' = Pending
    /\ pc' = "idle"
    /\ UNCHANGED <<kind, stream, coop, h_out, tree_sent, arrived, hIn, from_tree, from_tree_closed, to_tree, to_tree_alive,
                   send_failed, incoming_requests, incoming_closed,
                   dl_ready, dl_actions, at_start, emitted, returned>>

(* ----------------- EngineHandler::on_event ----------------------------- *)

EngineHandler_on_event ==
    /\ pc = "idle"
    /\ NumEnv < MaxEnv
    /\ \E event \in OrchestratorEvents : HandlerOnEvent(FromEngine_from(event))
    /\ UNCHANGED <<kind, stream, coop, h_out, tree_sent, arrived, pc, from_tree, from_tree_closed, to_tree_alive, incoming_requests, incoming_closed, dl_ready, dl_actions, tr,
                   ret, at_start, emitted, returned>>

(* ----------------- the other tasks ------------------------------------- *)

\* a request arrives on the incoming stream
RequestArrives ==
    /\ ~incoming_closed
    /\ NumEnv < MaxEnv
    /\ \E req \in EngineRequests :
        /\ incoming_requests' = Append(incoming_requests, req)
        /\ arrived' = Append(arrived, req)
    /\ UNCHANGED <<kind, stream, coop, h_out, tree_sent, pc, hIn, from_tree, from_tree_closed, to_tree, to_tree_alive,
                   send_failed, incoming_closed, dl_ready, dl_actions,
                   tr, ret, at_start, emitted, returned>>

\* the incoming stream ends
RequestsClose ==
    /\ ~incoming_closed
    /\ incoming_closed' = TRUE
    /\ UNCHANGED <<kind, stream, coop, h_out, tree_sent, arrived, pc, hIn, from_tree, from_tree_closed, to_tree, to_tree_alive,
                   send_failed, incoming_requests, dl_ready, dl_actions,
                   tr, ret, at_start, emitted, returned>>

\* the downloader completes a batch
DownloadCompletes ==
    /\ NumEnv < MaxEnv
    /\ \E blocks \in BlockBatches : dl_ready' = Append(dl_ready, blocks)
    /\ UNCHANGED <<kind, stream, coop, h_out, tree_sent, arrived, pc, hIn, from_tree, from_tree_closed, to_tree, to_tree_alive,
                   send_failed, incoming_requests, incoming_closed,
                   dl_actions, tr, ret, at_start, emitted, returned>>

\* the tree task sends an event on from_tree
TreeSends ==
    /\ kind = "api"
    /\ ~from_tree_closed
    /\ NumEnv < MaxEnv
    /\ \E ev \in EngineApiEvents :
        /\ from_tree' = Append(from_tree, ev)
        /\ tree_sent' = Append(tree_sent, ev)
    /\ UNCHANGED <<kind, stream, coop, h_out, arrived, pc, hIn, from_tree_closed, to_tree, to_tree_alive,
                   send_failed, incoming_requests, incoming_closed,
                   dl_ready, dl_actions, tr, ret, at_start, emitted, returned>>

\* the tree task drops its sender of from_tree
TreeClosesEvents ==
    /\ kind = "api"
    /\ ~from_tree_closed
    /\ from_tree_closed' = TRUE
    /\ UNCHANGED <<kind, stream, coop, h_out, tree_sent, arrived, pc, hIn, from_tree, to_tree, to_tree_alive, send_failed,
                   incoming_requests, incoming_closed, dl_ready,
                   dl_actions, tr, ret, at_start, emitted, returned>>

\* the tree task drops its receiver of to_tree
TreeDropsReceiver ==
    /\ kind = "api"
    /\ to_tree_alive
    /\ to_tree_alive' = FALSE
    /\ UNCHANGED <<kind, stream, coop, h_out, tree_sent, arrived, pc, hIn, from_tree, from_tree_closed, to_tree, send_failed,
                   incoming_requests, incoming_closed, dl_ready,
                   dl_actions, tr, ret, at_start, emitted, returned>>

\* the task returns to the runtime and is polled again: tokio gives every
\* task poll the full budget
TaskYield ==
    /\ pc = "idle"
    /\ coop < CoopBudget
    /\ coop' = CoopBudget
    /\ UNCHANGED <<kind, stream, h_out, tree_sent, arrived, pc, hIn, from_tree,
                   from_tree_closed, to_tree, to_tree_alive, send_failed,
                   incoming_requests, incoming_closed, dl_ready, dl_actions,
                   tr, ret, at_start, emitted, returned>>

\* between two calls of poll the task's other work spends budget
TaskSpends ==
    /\ pc = "idle"
    /\ \E left \in StartBudgets : left < coop /\ coop' = left
    /\ UNCHANGED <<kind, stream, h_out, tree_sent, arrived, pc, hIn, from_tree,
                   from_tree_closed, to_tree, to_tree_alive, send_failed,
                   incoming_requests, incoming_closed, dl_ready, dl_actions,
                   tr, ret, at_start, emitted, returned>>

(* ----------------- specification --------------------------------------- *)

\* EngineHandler::new, in a task poll that starts with the full budget, over
\* an unbudgeted stream (InitTask: any budget, either kind of stream)
Init ==
    /\ kind = "generic"
    /\ pc = "idle"
    /\ hIn = <<>>
    /\ from_tree = <<>>
    /\ from_tree_closed = FALSE
    /\ to_tree = <<>>
    /\ to_tree_alive = TRUE
    /\ send_failed = FALSE
    /\ incoming_requests = <<>>
    /\ incoming_closed = FALSE
    /\ dl_ready = <<>>
    /\ dl_actions = <<>>
    /\ tr = <<>>
    /\ ret = NoReturn
    /\ at_start = [closed |-> FALSE, requests |-> 0, send_failed |-> FALSE]
    /\ emitted = <<>>
    /\ returned = <<>>
    /\ h_out = <<>>
    /\ tree_sent = <<>>
    /\ arrived = <<>>
    /\ coop = CoopBudget
    /\ stream = "plain"

Next ==
    \/ PollStart
    \/ DrainPending
    \/ DrainDownload
    \/ DrainHandlerEvent
    \/ AcceptRequest
    \/ NoRequest
    \/ DeliverBlocks
    \/ ReturnPending
    \/ EngineHandler_on_event
    \/ RequestArrives
    \/ RequestsClose
    \/ DownloadCompletes

\* EngineHandler<T, S, D> for an arbitrary T: EngineRequestHandler
Spec == Init /\ [][Next]_vars

\* EngineHandler<EngineApiRequestHandler, S, D>, with the tree task, in one
\* task poll that starts with the full budget, over an unbudgeted stream
InitApi ==
    /\ kind = "api"
    /\ pc = "idle"
    /\ hIn = <<>>
    /\ from_tree = <<>>
    /\ from_tree_closed = FALSE
    /\ to_tree = <<>>
    /\ to_tree_alive = TRUE
    /\ send_failed = FALSE
    /\ incoming_requests = <<>>
    /\ incoming_closed = FALSE
    /\ dl_ready = <<>>
    /\ dl_actions = <<>>
    /\ tr = <<>>
    /\ ret = NoReturn
    /\ at_start = [closed |-> FALSE, requests |-> 0, send_failed |-> FALSE]
    /\ emitted = <<>>
    /\ returned = <<>>
    /\ h_out = <<>>
    /\ tree_sent = <<>>
    /\ arrived = <<>>
    /\ coop = CoopBudget
    /\ stream = "plain"

NextApi ==
    \/ PollStart
    \/ DrainPending
    \/ DrainDownload
    \/ DrainHandlerEvent
    \/ AcceptRequest
    \/ NoRequest
    \/ DeliverBlocks
    \/ ReturnPending
    \/ EngineHandler_on_event
    \/ RequestArrives
    \/ RequestsClose
    \/ DownloadCompletes
    \/ TreeSends
    \/ TreeClosesEvents
    \/ TreeDropsReceiver

SpecApi == InitApi /\ [][NextApi]_vars

(* ----------------- task polls, any budget, either stream --------------- *)

\* EngineHandler::new over either kind of stream, in a task that has
\* StartBudgets left when it first calls poll
InitTask ==
    /\ kind = "generic"
    /\ pc = "idle"
    /\ hIn = <<>>
    /\ from_tree = <<>>
    /\ from_tree_closed = FALSE
    /\ to_tree = <<>>
    /\ to_tree_alive = TRUE
    /\ send_failed = FALSE
    /\ incoming_requests = <<>>
    /\ incoming_closed = FALSE
    /\ dl_ready = <<>>
    /\ dl_actions = <<>>
    /\ tr = <<>>
    /\ ret = NoReturn
    /\ at_start = [closed |-> FALSE, requests |-> 0, send_failed |-> FALSE]
    /\ emitted = <<>>
    /\ returned = <<>>
    /\ h_out = <<>>
    /\ tree_sent = <<>>
    /\ arrived = <<>>
    /\ coop \in StartBudgets
    /\ stream \in {"plain", "tokio"}

\* every operation of EngineHandler and every other task, over task polls
NextTask ==
    \/ PollStart
    \/ DrainPending
    \/ DrainDownload
    \/ DrainHandlerEvent
    \/ AcceptRequest
    \/ NoRequest
    \/ DeliverBlocks
    \/ ReturnPending
    \/ EngineHandler_on_event
    \/ RequestArrives
    \/ RequestsClose
    \/ DownloadCompletes
    \/ TaskYield
    \/ TaskSpends

\* EngineHandler<T, S, D> for an arbitrary T, over task polls with any budget
SpecTask == InitTask /\ [][NextTask]_vars

\* EngineApiRequestHandler::new, EngineHandler::new in a task that has
\* StartBudgets left when it first calls poll, over either kind of stream
InitCoop ==
    /\ kind = "api"
    /\ pc = "idle"
    /\ hIn = <<>>
    /\ from_tree = <<>>
    /\ from_tree_closed = FALSE
    /\ to_tree = <<>>
    /\ to_tree_alive = TRUE
    /\ send_failed = FALSE
    /\ incoming_requests = <<>>
    /\ incoming_closed = FALSE
    /\ dl_ready = <<>>
    /\ dl_actions = <<>>
    /\ tr = <<>>
    /\ ret = NoReturn
    /\ at_start = [closed |-> FALSE, requests |-> 0, send_failed |-> FALSE]
    /\ emitted = <<>>
    /\ returned = <<>>
    /\ h_out = <<>>
    /\ tree_sent = <<>>
    /\ arrived = <<>>
    /\ coop \in StartBudgets
    /\ stream \in {"plain", "tokio"}

\* every operation of both handlers and every other task, over task polls
NextCoop ==
    \/ PollStart
    \/ DrainPending
    \/ DrainDownload
    \/ DrainHandlerEvent
    \/ AcceptRequest
    \/ NoRequest
    \/ DeliverBlocks
    \/ ReturnPending
    \/ EngineHandler_on_event
    \/ RequestArrives
    \/ RequestsClose
    \/ DownloadCompletes
    \/ TreeSends
    \/ TreeClosesEvents
    \/ TreeDropsReceiver
    \/ TaskYield
    \/ TaskSpends

\* EngineHandler<EngineApiRequestHandler, S, D>, with the tree task, over
\* task polls with any budget
SpecCoop == InitCoop /\ [][NextCoop]_vars

(* ----------------- after a send on to_tree has failed ------------------- *)

\* the state after EngineApiRequestHandler::new, the tree task dropping its
\* receiver of to_tree, and a first on_event call, whose send failed
InitSendFailed ==
    /\ kind = "api"
    /\ pc = "idle"
    /\ hIn = <<FromEngine_from("s1")>>
    /\ from_tree = <<>>
    /\ from_tree_closed = FALSE
    /\ to_tree = <<>>
    /\ to_tree_alive = FALSE
    /\ send_failed = TRUE
    /\ incoming_requests = <<>>
    /\ incoming_closed = FALSE
    /\ dl_ready = <<>>
    /\ dl_actions = <<>>
    /\ tr = <<>>
    /\ ret = NoReturn
    /\ at_start = [closed |-> FALSE, requests |-> 0, send_failed |-> FALSE]
    /\ emitted = <<>>
    /\ returned = <<>>
    /\ h_out = <<>>
    /\ tree_sent = <<>>
    /\ arrived = <<>>
    /\ coop \in StartBudgets
    /\ stream \in {"plain", "tokio"}

\* every operation of NextCoop but TreeDropsReceiver: the receiver is gone
NextSendFailed ==
    \/ PollStart
    \/ DrainPending
    \/ DrainDownload
    \/ DrainHandlerEvent
    \/ AcceptRequest
    \/ NoRequest
    \/ DeliverBlocks
    \/ ReturnPending
    \/ EngineHandler_on_event
    \/ RequestArrives
    \/ RequestsClose
    \/ DownloadCompletes
    \/ TreeSends
    \/ TreeClosesEvents
    \/ TaskYield
    \/ TaskSpends

\* the steps of a poll invocation that has started
PollSteps ==
    \/ DrainPending
    \/ DrainDownload
    \/ DrainHandlerEvent
    \/ AcceptRequest
    \/ NoRequest
    \/ DeliverBlocks
    \/ ReturnPending

\* a poll that was called keeps executing; the task returns to the runtime
\* again and again (a poll_recv that finds the budget spent wakes the task,
\* a closing channel wakes it too) and calls poll with budget left again and
\* again
SpecSendFailed ==
    /\ InitSendFailed
    /\ [][NextSendFailed]_vars
    /\ WF_vars(PollSteps)
    /\ SF_vars(TaskYield)
    /\ SF_vars(PollStart /\ coop > 0)

(* ----------------- an incoming stream that is always ready -------------- *)

\* the latest MaxLog entries of a log
Latest(log) ==
    IF Len(log) > MaxLog THEN SubSeq(log, Len(log) - MaxLog + 1, Len(log)) ELSE log

\* `if let Poll::Ready(Some(req)) = ...poll_next_unpin(cx)` on a stream that
\* has the next request ready as soon as one is taken; on_event; `continue`
BusyAcceptRequest ==
    /\ pc = "incoming"
    /\ LET q == poll_next(incoming_requests, incoming_closed, stream = "tokio", coop)
           p == q.res
       IN /\ coop' = q.budget
          /\ p.tag = "ReadySome"
          /\ \E req \in EngineRequests :
                /\ incoming_requests' = Append(Tail(incoming_requests), req)
                /\ arrived' = Latest(Append(arrived, req))
          /\ hIn' = Latest(Append(hIn, FromEngine_Request(p.item)))
          /\ tr' = Latest(tr \o <<RPoll(p), In(FromEngine_Request(p.item))>>)
    /\ pc' = "drain"
    /\ UNCHANGED <<kind, stream, h_out, tree_sent, from_tree, from_tree_closed, to_tree,
                   to_tree_alive, send_failed, incoming_closed, dl_ready,
                   dl_actions, ret, at_start, emitted, returned>>

\* EngineHandler::new over a stream with a request ready
InitBusy ==
    /\ kind = "generic"
    /\ pc = "idle"
    /\ hIn = <<>>
    /\ from_tree = <<>>
    /\ from_tree_closed = FALSE
    /\ to_tree = <<>>
    /\ to_tree_alive = TRUE
    /\ send_failed = FALSE
    /\ incoming_requests \in {<<req>> : req \in EngineRequests}
    /\ incoming_closed = FALSE
    /\ dl_ready = <<>>
    /\ dl_actions = <<>>
    /\ tr = <<>>
    /\ ret = NoReturn
    /\ at_start = [closed |-> FALSE, requests |-> 0, send_failed |-> FALSE]
    /\ emitted = <<>>
    /\ returned = <<>>
    /\ h_out = <<>>
    /\ tree_sent = <<>>
    /\ arrived = incoming_requests
    /\ coop = CoopBudget
    /\ stream = "plain"

NextBusy ==
    \/ PollStart
    \/ DrainPending
    \/ BusyAcceptRequest
    \/ EngineHandler_on_event

\* EngineHandler over a handler that is Pending and a stream that always has
\* a request ready; a poll that was called keeps executing
SpecBusy ==
    InitBusy /\ [][NextBusy]_vars /\ WF_vars(DrainPending \/ BusyAcceptRequest)


(* ----------------- what the properties speak about --------------------- *)

\* positions of tr of one kind
Steps(k) == {i \in 1..Len(tr) : tr[i].k = k}

\* inputs the current (or last) poll invocation delivered to the handler
Deliveries == Steps("in")

\* the invocation has returned
Returned == pc = "idle" /\ ret # NoReturn

\* poll had returned FatalError before the current (or last) invocation began
FatalBefore ==
    LET n == IF Returned /\ ret.tag = "Ready"
             THEN Len(returned) - 1 ELSE Len(returned)
    IN \E i \in 1..n : returned[i] = FatalError

\* every handler poll of the invocation reported Pending
HandlerAlwaysPending ==
    \A i \in Steps("hpoll") : tr[i].res = Pending

\* requests delivered before the downloader was first polled
RequestsBeforeDownloader ==
    {i \in Deliveries : tr[i].input.tag = "Request"
                        /\ \A d \in Steps("dpoll") : i < d}

(* ----------------- properties ------------------------------------------ *)

\* C1: when poll returns BackfillAction(target), the last thing the invocation
\* did before returning was to send Clear to the downloader, right after the
\* handler poll that produced that BackfillAction: after every Download sent
\* earlier, and never without the Clear.
C1_ClearBeforeBackfill ==
    (Returned /\ ret.tag = "Ready" /\ ret.hev.tag = "BackfillAction")
        => /\ Len(tr) >= 2
           /\ tr[Len(tr)] = Act(Clear)
           /\ tr[Len(tr) - 1] = HPoll(HandlerEvent(ret.hev))
           /\ dl_actions # <<>>
           /\ Last(dl_actions) = Clear

\* a poll that sent a Download and then returned a BackfillAction
C1_Witness ==
    /\ Returned
    /\ ret = Ready(BackfillAction("t1"))
    /\ \E i \in Steps("action") : tr[i].action.tag = "Start"

\* C2: every input poll delivers to the handler comes after a handler poll
\* that reported Pending, with nothing but the poll of the source in between:
\* no other handler result, downloader action or delivery.
C2_DrainBeforeAccept ==
    \A i \in Deliveries :
        \E j \in 1..(i - 1) :
            /\ tr[j] = HPoll(Pending)
            /\ \A m \in (j + 1)..(i - 1) : tr[m].k \in {"rpoll", "dpoll"}

\* a poll that delivered two requests
C2_Witness ==
    \E i, j \in Deliveries :
        i < j /\ tr[i].input.tag = "Request" /\ tr[j].input.tag = "Request"

\* C3: once poll has returned FatalError, no later poll invocation delivers
\* an input to the handler.
C3_FatalIsTerminal ==
    FatalBefore => Deliveries = {}

\* C4 as stated: handler always Pending, N >= 2 requests ready: exactly one
\* request is delivered before the downloader is polled.
C4_ExactlyOneRequest ==
    (at_start.requests >= 2 /\ HandlerAlwaysPending /\ Steps("dpoll") # {})
        => Cardinality(RequestsBeforeDownloader) = 1

\* C4 amended: handler always Pending, N >= 2 requests queued: the requests
\* are delivered one per loop iteration, the handler being polled again after
\* each, and the downloader is first polled only when all N have been
\* delivered, or, over a budgeted stream, when the task's budget is spent.
C4_OnePerIteration ==
    (at_start.requests >= 2 /\ HandlerAlwaysPending)
        => /\ (pc = "downloader" /\ Steps("dpoll") = {})
                => \/ Cardinality(RequestsBeforeDownloader) >= at_start.requests
                   \/ stream = "tokio" /\ coop = 0
           /\ (stream = "plain" /\ Steps("dpoll") # {})
                => Cardinality(RequestsBeforeDownloader) >= at_start.requests
           /\ \A i, j \in Deliveries :
                i < j => \E h \in Steps("hpoll") : i < h /\ h < j
           /\ \A i \in Deliveries :
                i < Len(tr) => tr[i + 1].k = "hpoll"

\* two queued requests delivered over a budgeted stream that has ended, the
\* end of the stream reported, then the downloader polled and its blocks
\* delivered
C4_Witness ==
    /\ Len(tr) >= 10
    /\ stream = "tokio"
    /\ at_start.requests >= 2
    /\ HandlerAlwaysPending
    /\ Cardinality(RequestsBeforeDownloader) = 2
    /\ tr[8] = RPoll(ReadyNone)
    /\ tr[9].k = "dpoll"
    /\ tr[10] = In(FromEngine_DownloadedBlocks(<<"b1">>))

\* C5: the values poll returned as Ready are the HandlerEvents the handler's
\* poll produced, same order, same payloads; a poll that reaches a
\* HandlerEvent returns it at once.
C5_BubbledUnchanged ==
    /\ returned = emitted
    /\ \A i \in Steps("hpoll") :
        tr[i].res.tag = "HandlerEvent"
            => /\ Returned
               /\ ret = Ready(tr[i].res.hev)
               /\ Last(returned) = tr[i].res.hev
               /\ \A j \in Steps("hpoll") : j <= i

\* two different results returned by two polls
C5_Witness ==
    /\ Returned
    /\ returned = <<Event("e2"), BackfillAction("t1")>>

\* C6 as stated: the incoming stream has ended, from_tree is open: poll
\* returns FatalError.
C6_StreamEndIsFatal ==
    (Returned /\ ~from_tree_closed /\ \E i \in Steps("rpoll") : tr[i].item = ReadyNone)
        => ret = Ready(FatalError)

\* C6 amended: the end of the incoming stream is not reported: it is handled
\* as no request ready (the downloader is polled next, and poll returns
\* Pending when the downloader has nothing); poll returns FatalError only for
\* a FatalError of the handler, that is with from_tree closed.
C6_StreamEndIsNoRequest ==
    /\ \A i \in Steps("rpoll") :
        tr[i].item = ReadyNone
            => /\ i = Len(tr) => pc = "downloader"
               /\ i < Len(tr) => tr[i + 1].k = "dpoll"
               /\ (i < Len(tr) /\ tr[i + 1] = DPoll(Pending))
                    => Returned /\ ret = Pending
    /\ (Returned /\ ret = Ready(FatalError))
            => from_tree_closed /\ Last(tr) = HPoll(HandlerEvent(FatalError))

\* the stream has ended, from_tree is open, poll returned Pending
C6_Witness ==
    /\ Returned
    /\ ~from_tree_closed
    /\ incoming_closed
    /\ ret = Pending
    /\ tr[Len(tr) - 1] = RPoll(ReadyNone)

\* a send on to_tree has failed and from_tree is closed
C7_FailedAndClosed == send_failed /\ from_tree_closed

\* C7 as stated: after a failed send and the closure of from_tree, polling
\* yields exactly one FatalError, and does yield it.
C7_ExactlyOneFatalError ==
    /\ [](C7_FailedAndClosed => NumFatal <= 1)
    /\ C7_FailedAndClosed ~> (NumFatal = 1)

\* C7 amended: after a failed send and the closure of from_tree, polling
\* does not stay Pending: the handler reports Pending only while the task's
\* budget is spent, and with from_tree empty and budget left it reports
\* FatalError, which that poll call returns at once, one FatalError for the
\* call, and again for every later call; a FatalError is eventually returned.
C7_NoSilentHang ==
    /\ [][(C7_FailedAndClosed /\ pc = "drain" /\ tr' # tr)
            => /\ tr'[Len(tr) + 1].k = "hpoll"
               /\ tr'[Len(tr) + 1].res = Pending <=> coop = 0
               /\ (from_tree = <<>> /\ coop > 0)
                    => /\ tr' = Append(tr, HPoll(HandlerEvent(FatalError)))
                       /\ pc' = "idle"
                       /\ ret' = Ready(FatalError)
                       /\ returned' = Append(returned, FatalError)]_vars
    /\ C7_FailedAndClosed ~> (NumFatal >= 1)

\* a send failed, from_tree was closed, and the poll started after that
\* returned FatalError
C7_Witness ==
    /\ Returned
    /\ at_start.send_failed
    /\ at_start.closed
    /\ ret = Ready(FatalError)
    /\ returned = <<FatalError>>
    /\ tr = <<HPoll(HandlerEvent(FatalError))>>

\* the translation C8 states
C8_Translated(ev) ==
    IF ev \in {EngineApiEvent_BeaconConsensus(e) : e \in BeaconEvents}
    THEN HandlerEvent(Event(ev.ev))
    ELSE IF ev \in {EngineApiEvent_BackfillAction(t) : t \in BackfillTargets}
    THEN HandlerEvent(BackfillAction(ev.action))
    ELSE Download(ev.action)

\* C8 as stated: a poll of the channel-backed handler takes the first event
\* of from_tree and reports its translation; with from_tree empty it reports
\* FatalError when the channel is closed and Pending when it is open; it
\* reports Pending exactly when the channel is open and empty.
C8_ChannelTranslation ==
    [][(pc = "drain" /\ tr' # tr)
        => LET res == tr'[Len(tr) + 1].res
           IN /\ tr'[Len(tr) + 1].k = "hpoll"
              /\ from_tree # <<>>
                    => /\ res = C8_Translated(Head(from_tree))
                       /\ from_tree' = Tail(from_tree)
              /\ from_tree = <<>>
                    => /\ from_tree' = from_tree
                       /\ res = IF from_tree_closed
                                THEN HandlerEvent(FatalError) ELSE Pending
              /\ res = Pending <=> (from_tree = <<>> /\ ~from_tree_closed)]_vars

\* C9 as stated: from_tree closed before any event was sent: a poll started
\* after that polls the handler once and returns FatalError; it polls neither
\* the incoming stream nor the downloader and delivers nothing.
C9_ClosedChannelIsFatal ==
    (at_start.closed /\ NumOut = 0)
        => \/ pc = "drain" /\ tr = <<>>
           \/ /\ Returned
              /\ tr = <<HPoll(HandlerEvent(FatalError))>>
              /\ ret = Ready(FatalError)
              /\ Last(returned) = FatalError

\* C10: a poll that returns Pending ended with the handler reporting Pending,
\* then the incoming stream reporting no item, then the downloader reporting
\* Pending, with no delivery and no downloader action after these.
C10_PendingMeansNothingReady ==
    (Returned /\ ret = Pending)
        => /\ Len(tr) >= 3
           /\ tr[Len(tr) - 2] = HPoll(Pending)
           /\ tr[Len(tr) - 1] \in {RPoll(Pending), RPoll(ReadyNone)}
           /\ tr[Len(tr)] = DPoll(Pending)

\* a poll that delivered a request and blocks and sent a Download, then
\* returned Pending
C10_Witness ==
    /\ Returned
    /\ ret = Pending
    /\ \E i, j \in Deliveries :
        tr[i].input.tag = "Request" /\ tr[j].input.tag = "DownloadedBlocks"
    /\ Steps("action") # {}

\* C12: an on_event call passes exactly one input to the handler, the
\* orchestrator event wrapped as FromEngine::Event; it sends nothing to the
\* downloader, takes nothing from the incoming stream or the downloader and
\* does not poll the handler.
C12_OnEventForwards ==
    [][(pc = "idle" /\ pc' = "idle" /\ hIn' # hIn)
        => /\ \E event \in OrchestratorEvents :
                hIn' = Append(hIn, FromEngine_Event(event))
           /\ UNCHANGED <<dl_actions, dl_ready, incoming_requests, incoming_closed,
                          from_tree, h_out, emitted, returned, tr, ret>>]_vars

\* an orchestrator event delivered after a poll delivered a request
C12_Witness ==
    /\ pc = "idle"
    /\ Len(hIn) = 2
    /\ hIn[1].tag = "Request"
    /\ hIn[2] = FromEngine_Event("s1")

\* C13: a Download(req) of the handler is followed at once by
\* DownloadAction::Download(req) to the downloader and then by the next
\* handler poll; if the handler then reports Pending and neither the incoming
\* stream nor the downloader has anything, poll returns Pending and the
\* downloader has received that one action.
C13_DownloadKeepsDraining ==
    /\ \A i \in Steps("hpoll") :
        tr[i].res.tag = "Download"
            => /\ i < Len(tr)
               /\ tr[i + 1] = Act(DownloadAction_Download(tr[i].res.req))
               /\ i + 1 = Len(tr) => pc = "drain"
               /\ i + 1 < Len(tr) => tr[i + 2].k = "hpoll"
    /\ (/\ Returned
        /\ Len(tr) = 5
        /\ tr[1].k = "hpoll"
        /\ tr[1].res.tag = "Download"
        /\ tr[3] = HPoll(Pending)
        /\ tr[4].k = "rpoll"
        /\ tr[5] = DPoll(Pending))
            => /\ ret = Pending
               /\ Cardinality(Steps("action")) = 1
               /\ dl_actions # <<>>
               /\ Last(dl_actions) = DownloadAction_Download(tr[1].res.req)
               /\ Len(h_out) = 1
                    => dl_actions = <<DownloadAction_Download(tr[1].res.req)>>

\* scenario A: Download, then Pending everywhere
C13_Witness ==
    /\ Returned
    /\ ret = Pending
    /\ tr = <<HPoll(Download(BlockSet({"h1"}))),
              Act(DownloadAction_Download(BlockSet({"h1"}))),
              HPoll(Pending), RPoll(Pending), DPoll(Pending)>>
    /\ dl_actions = <<DownloadAction_Download(BlockSet({"h1"}))>>

\* C14: a Blocks(seq) outcome of the downloader is followed at once by the
\* delivery of DownloadedBlocks(seq) to the handler and then by a handler
\* poll, before poll returns or polls the incoming stream or the downloader.
C14_BlocksThenHandler ==
    \A i \in Steps("dpoll") :
        tr[i].out.tag = "ReadyOutcome"
            => /\ i < Len(tr)
               /\ tr[i + 1] = In(FromEngine_DownloadedBlocks(tr[i].out.outcome.blocks))
               /\ i + 1 = Len(tr) => pc = "drain"
               /\ i + 1 < Len(tr) => tr[i + 2].k = "hpoll"

\* scenario B: blocks delivered, the handler polled again, poll returned
C14_Witness ==
    /\ Returned
    /\ \E i \in Steps("dpoll") :
        /\ tr[i] = DPoll(ReadyOutcome(Blocks(<<"b1">>)))
        /\ i + 2 <= Len(tr)
        /\ tr[i + 1] = In(FromEngine_DownloadedBlocks(<<"b1">>))

\* to_tree holds the first inputs on_event was called with, in call order
C15_SentInCallOrder ==
    /\ Len(to_tree) <= Len(hIn)
    /\ to_tree = SubSeq(hIn, 1, Len(to_tree))
    /\ to_tree_alive => to_tree = hIn
    /\ send_failed <=> Len(to_tree) < Len(hIn)

\* C15: on_event puts every input on to_tree in call order; when the send
\* fails (receiver gone) nothing else happens: to_tree and from_tree are as
\* before, nothing is returned, and a running poll goes on draining.
C15_ForwardsAndSwallows ==
    /\ []C15_SentInCallOrder
    /\ [][(hIn' # hIn /\ ~to_tree_alive)
            => /\ to_tree' = to_tree
               /\ from_tree' = from_tree
               /\ from_tree_closed' = from_tree_closed
               /\ returned' = returned
               /\ ret' = ret
               /\ pc' = IF pc = "idle" THEN "idle" ELSE "drain"]_vars

\* two different inputs sent in order, a third one lost
C15_Witness ==
    /\ Len(hIn) = 3
    /\ to_tree = <<FromEngine_Request("r2"), FromEngine_Event("s1")>>
    /\ send_failed

\* C16: single_block(h) is the BlockSet of exactly the hash h, and the set
\* built from [h, h] has one element.
C16_SingleBlock ==
    \A i \in 1..Len(dl_actions) : \A h \in Hashes :
        (dl_actions[i].tag = "Start" /\ dl_actions[i].req = single_block(h))
            => /\ dl_actions[i].req = BlockSet({h})
               /\ Cardinality(dl_actions[i].req.hashes) = 1
               /\ \A g \in Hashes : g \in dl_actions[i].req.hashes <=> g = h
               /\ Cardinality(HashSet_from(<<h, h>>)) = 1
               /\ BlockSet(HashSet_from(<<h, h>>)) = dl_actions[i].req

\* the downloader received a request built by single_block
C16_Witness ==
    \E i \in 1..Len(dl_actions) :
        /\ dl_actions[i].tag = "Start"
        /\ dl_actions[i].req = single_block("h1")
        /\ dl_actions[i].req.hashes = {"h1"}

\* C17: the downloader is polled only right after the handler reported
\* Pending and the incoming stream then reported no item; after a request is
\* taken the handler is polled next, not the downloader.
C17_RequestsBeforeDownloads ==
    /\ \A i \in Steps("dpoll") :
        /\ i >= 3
        /\ tr[i - 1] \in {RPoll(Pending), RPoll(ReadyNone)}
        /\ tr[i - 2] = HPoll(Pending)
    /\ \A i \in Steps("rpoll") :
        tr[i].item.tag = "ReadySome"
            => /\ i < Len(tr)
               /\ tr[i + 1] = In(FromEngine_Request(tr[i].item.item))
               /\ i + 1 = Len(tr) => pc = "drain"
               /\ i + 1 < Len(tr) => tr[i + 2].k = "hpoll"

\* one poll delivered a request and, later, blocks
C17_Witness ==
    \E i, j \in Deliveries :
        /\ i < j
        /\ tr[i].input.tag = "Request"
        /\ tr[j].input.tag = "DownloadedBlocks"

\* C18: the actions the downloader received are, in order, one
\* Download(req) for each Download(req) of the handler and one Clear for each
\* BackfillAction; nothing else sends an action.
C18_ActionsFromHandlerOnly ==
    LET Causes(r) ==
            \/ r.tag = "Download"
            \/ r.tag = "HandlerEvent" /\ r.hev.tag = "BackfillAction"
        causes == SelectSeq(h_out, Causes)
    IN dl_actions =
        [i \in 1..Len(causes) |->
            IF causes[i].tag = "Download"
            THEN DownloadAction_Download(causes[i].req)
            ELSE Clear]

\* a FatalError, a Download and a delivered input in one run
C18_Witness ==
    /\ Len(dl_actions) = 1
    /\ Len(h_out) = 2
    /\ h_out[1] = HandlerEvent(FatalError)
    /\ hIn # <<>>

\* the requests the handler received, followed by those still in the stream,
\* are the requests that arrived
C19_RequestsOnce ==
    LET IsRequest(x) == x.tag = "Request"
        got == SelectSeq(hIn, IsRequest)
    IN [i \in 1..Len(got) |-> got[i].req] \o incoming_requests = arrived

\* C19: every request taken from the incoming stream is delivered once, in
\* the order taken, in the step that takes it; every Blocks outcome taken
\* from the downloader is delivered once in the step that takes it.
C19_NoLossNoDuplication ==
    /\ []C19_RequestsOnce
    /\ [][/\ Len(incoming_requests') < Len(incoming_requests)
                => /\ pc = "incoming"
                   /\ incoming_requests' = Tail(incoming_requests)
                   /\ hIn' = Append(hIn, FromEngine_Request(Head(incoming_requests)))
          /\ (pc = "downloader" /\ Len(dl_ready') < Len(dl_ready))
                => /\ dl_ready' = Tail(dl_ready)
                   /\ hIn' = Append(hIn, FromEngine_DownloadedBlocks(Head(dl_ready)))
          /\ (pc # "idle" /\ hIn' # hIn)
                => \/ Len(incoming_requests') < Len(incoming_requests)
                   \/ Len(dl_ready') < Len(dl_ready)]_vars

\* two different requests and a batch of blocks delivered
C19_Witness ==
    /\ Count(hIn, "Request") = 2
    /\ Count(hIn, "DownloadedBlocks") = 1
    /\ arrived = <<"r2", "r1">>
    /\ incoming_requests = <<>>

\* C20: the results the handler's poll produced before any FatalError are
\* the translations of the events the tree sent, in send order; FatalError is
\* produced only with from_tree closed and empty, after all of them.
C20_ClosureAfterBacklog ==
    LET NotFatal(r) == r # HandlerEvent(FatalError)
        results == SelectSeq(h_out, NotFatal)
    IN /\ results \o [i \in 1..Len(from_tree) |-> C8_Translated(from_tree[i])]
            = [i \in 1..Len(tree_sent) |-> C8_Translated(tree_sent[i])]
       /\ \A i \in 1..Len(h_out) :
            h_out[i] = HandlerEvent(FatalError)
                => /\ from_tree_closed
                   /\ from_tree = <<>>
                   /\ \A j \in 1..Len(h_out) :
                        h_out[j] # HandlerEvent(FatalError) => j < i

\* two events sent, the channel closed, both reported before the FatalError
C20_Witness ==
    /\ Len(tree_sent) = 2
    /\ tree_sent[1] # tree_sent[2]
    /\ Len(h_out) = 3
    /\ h_out[3] = HandlerEvent(FatalError)

\* C11: every poll invocation ends, with Ready or Pending, when the handler
\* reports Pending and the incoming stream always has a next request ready.
C11_PollReturns == (pc # "idle") ~> Returned

====
